---- MODULE Spec2Model ----
(***************************************************************************)
(* A model of tt-burnin's firmware loader (src/tt_burnin/load_ttx.py):     *)
(* the binary and hex container decoders, the archive classification and  *)
(* validation of load_ttx_file, and the device requests the loader issues. *)
(***************************************************************************)
EXTENDS Integers, Sequences, FiniteSets, TLC

(***************************************************************************)
(* Bounds of the model.                                                    *)
(***************************************************************************)
\* number of tensix cores of the modelled chip
NumTensix == 2
\* largest number of entries of an archive
MaxEntries == 2

(***************************************************************************)
(* Byte strings.  A byte is 0..255, a stream is a sequence of bytes.       *)
(***************************************************************************)
RECURSIVE ToLE(_, _)
\* struct.pack("<I"/"<Q"): n as w little-endian bytes
ToLE(n, w) == IF w = 0 THEN <<>> ELSE <<n % 256>> \o ToLE(n \div 256, w - 1)

RECURSIVE FromLE(_)
\* struct.unpack("<I"/"<Q"): the value of little-endian bytes
FromLE(b) == IF b = <<>> THEN 0 ELSE b[1] + 256 * FromLE(Tail(b))

RECURSIVE Zeros(_)
Zeros(n) == IF n = 0 THEN <<>> ELSE <<0>> \o Zeros(n - 1)

Min(a, b) == IF a < b THEN a ELSE b

\* f.read(n) at 0-based offset pos: at most n bytes, fewer at end of stream
ReadAt(bytes, pos, n) == SubSeq(bytes, pos + 1, Min(pos + n, Len(bytes)))

(***************************************************************************)
(* Binary container codec.                                                 *)
(***************************************************************************)
\* 0x9704266B as struct "<I" lays it out
BIN_FILE_V1_MAGIC == <<107, 38, 4, 151>>
\* struct.Struct("<IIIIIIII").size
BIN_HEADER_SIZE == 32
\* struct.Struct("<QII").size
CHUNK_HEADER_SIZE == 16

NoError == ""

\* ChunkHeader.write packing the fields as address, reserved_mbz, length
ChunkHeaderWrite_swapped(address, length, reserved_mbz) ==
    ToLE(address, 8) \o ToLE(reserved_mbz, 4) \o ToLE(length, 4)

\* ChunkHeader.write: address u64, length u32, reserved_mbz u32
ChunkHeaderWrite(address, length, reserved_mbz) ==
    ToLE(address, 8) \o ToLE(length, 4) \o ToLE(reserved_mbz, 4)

\* ChunkHeader.read taking any short read, not only an empty one, as the end
ChunkHeaderRead_lenient(bytes, pos) ==
    LET b == ReadAt(bytes, pos, CHUNK_HEADER_SIZE) IN
    IF Len(b) # CHUNK_HEADER_SIZE
    THEN [none |-> TRUE, err |-> NoError, address |-> 0, length |-> 0]
    ELSE IF SubSeq(b, 13, 16) # Zeros(4)
    THEN [none |-> FALSE, err |-> "Chunk header contains nonzero in MBZ field.",
          address |-> 0, length |-> 0]
    ELSE [none |-> FALSE, err |-> NoError,
          address |-> FromLE(SubSeq(b, 1, 8)), length |-> FromLE(SubSeq(b, 9, 12))]

\* ChunkHeader.read at offset pos: none (clean end), a header, or an error
ChunkHeaderRead(bytes, pos) ==
    LET b == ReadAt(bytes, pos, CHUNK_HEADER_SIZE) IN
    IF Len(b) = 0 THEN [none |-> TRUE, err |-> NoError, address |-> 0, length |-> 0]
    ELSE IF Len(b) # CHUNK_HEADER_SIZE
    THEN [none |-> FALSE, err |-> "Image file is truncated within chunk header.",
          address |-> 0, length |-> 0]
    ELSE IF SubSeq(b, 13, 16) # Zeros(4)
    THEN [none |-> FALSE, err |-> "Chunk header contains nonzero in MBZ field.",
          address |-> 0, length |-> 0]
    ELSE [none |-> FALSE, err |-> NoError,
          address |-> FromLE(SubSeq(b, 1, 8)), length |-> FromLE(SubSeq(b, 9, 12))]

\* check_bin_header: the error it raises, or NoError
check_bin_header(bytes) ==
    LET b == ReadAt(bytes, 0, BIN_HEADER_SIZE) IN
    IF Len(b) # BIN_HEADER_SIZE
    THEN "Image file is truncated within binary file header."
    ELSE IF SubSeq(b, 1, 4) # BIN_FILE_V1_MAGIC
    THEN "Image file does not start with expected magic."
    ELSE IF SubSeq(b, 5, 32) # Zeros(28)
    THEN "Image file header contains nonzero in MBZ field."
    ELSE NoError

RECURSIVE ReadChunks(_, _)
\* the loop of read_bin_image_chunks from offset pos: the chunks it yields,
\* in order, and the error that ends the iteration (NoError: clean end)
ReadChunks(bytes, pos) ==
    LET h == ChunkHeaderRead(bytes, pos) IN
    IF h.none THEN [chunks |-> <<>>, err |-> NoError]
    ELSE IF h.err # NoError THEN [chunks |-> <<>>, err |-> h.err]
    ELSE LET data == ReadAt(bytes, pos + CHUNK_HEADER_SIZE, h.length) IN
         IF Len(data) # h.length
         THEN [chunks |-> <<>>, err |-> "Image file is truncated within data chunk."]
         ELSE LET rest == ReadChunks(bytes, pos + CHUNK_HEADER_SIZE + h.length) IN
              [chunks |-> <<[address |-> h.address, data |-> data]>> \o rest.chunks,
               err |-> rest.err]

\* read_bin_image_chunks: a generator; chunks are yielded before err is raised
read_bin_image_chunks(bytes) ==
    LET e == check_bin_header(bytes) IN
    IF e # NoError THEN [chunks |-> <<>>, err |-> e]
    ELSE ReadChunks(bytes, BIN_HEADER_SIZE)

(***************************************************************************)
(* Hex codec.  The stream is ASCII text.                                   *)
(***************************************************************************)
NL == 10
AT == 64
\* bytes.strip() strips ASCII whitespace: space, \t, \n, \v, \f, \r
IsSpace(c) == c \in {32, 9, 10, 11, 12, 13}

RECURSIVE SplitLines(_, _)
\* f.readlines(): lines keep their newline; cur is the line being collected
SplitLines(bytes, cur) ==
    IF bytes = <<>> THEN (IF cur = <<>> THEN <<>> ELSE <<cur>>)
    ELSE IF Head(bytes) = NL THEN <<Append(cur, NL)>> \o SplitLines(Tail(bytes), <<>>)
    ELSE SplitLines(Tail(bytes), Append(cur, Head(bytes)))

RECURSIVE LStrip(_)
LStrip(s) == IF s # <<>> /\ IsSpace(Head(s)) THEN LStrip(Tail(s)) ELSE s
RECURSIVE RStrip(_)
RStrip(s) == IF s # <<>> /\ IsSpace(s[Len(s)]) THEN RStrip(SubSeq(s, 1, Len(s) - 1)) ELSE s
Strip(s) == RStrip(LStrip(s))

\* the value of a hex digit character, -1 if it is none
HexDigit(c) == IF c >= 48 /\ c <= 57 THEN c - 48
               ELSE IF c >= 97 /\ c <= 102 THEN c - 87
               ELSE IF c >= 65 /\ c <= 70 THEN c - 55
               ELSE -1

RECURSIVE HexValue(_, _)
HexValue(s, acc) == IF s = <<>> THEN acc ELSE HexValue(Tail(s), 16 * acc + HexDigit(Head(s)))

\* int(f"0x{s}", 0): the value, or -1 where int raises ValueError
ParseHex(s) == IF s = <<>> \/ \E i \in 1..Len(s) : HexDigit(s[i]) = -1 THEN -1
               ELSE HexValue(s, 0)

\* a directive taken as a byte address already
ByteAddress_same(word_addr) == word_addr

\* "Word addr, so multiply it by 4 to turn it into byte address"
ByteAddress(word_addr) == word_addr * 4

RECURSIVE HexLines(_, _, _)
\* the loop and final flush of read_hex_image_chunks over the remaining lines;
\* addr = -1 stands for None
HexLines(lines, addr, buffer) ==
    IF lines = <<>>
    THEN IF Len(buffer) > 0
         THEN IF addr = -1 THEN [chunks |-> <<>>, err |-> "AssertionError"]
              ELSE [chunks |-> <<[address |-> addr, data |-> buffer]>>, err |-> NoError]
         ELSE [chunks |-> <<>>, err |-> NoError]
    ELSE LET line == Head(lines) IN
         IF Len(Strip(line)) = 0 THEN HexLines(Tail(lines), addr, buffer)
         ELSE IF Head(line) = AT
         THEN IF Len(buffer) > 0 /\ addr = -1
              THEN [chunks |-> <<>>, err |-> "AssertionError"]
              ELSE LET v == ParseHex(Strip(Tail(line)))
                       flushed == IF Len(buffer) > 0
                                  THEN <<[address |-> addr, data |-> buffer]>> ELSE <<>>
                   IN IF v = -1 THEN [chunks |-> flushed, err |-> "ValueError"]
                      ELSE LET rest == HexLines(Tail(lines), ByteAddress(v), <<>>) IN
                           [chunks |-> flushed \o rest.chunks, err |-> rest.err]
         ELSE LET v == ParseHex(Strip(line)) IN
              IF v = -1 THEN [chunks |-> <<>>, err |-> "ValueError"]
              ELSE HexLines(Tail(lines), addr, buffer \o ToLE(v, 4))

\* read_hex_image_chunks: a generator; chunks are yielded before err is raised
read_hex_image_chunks(bytes) == HexLines(SplitLines(bytes, <<>>), -1, <<>>)

(***************************************************************************)
(* The inputs of a load: a chip, an archive, a core mapping.               *)
(***************************************************************************)
\* the logical (source) cores an archive may name
LogicalCores == {<<0, 0>>, <<5, 5>>}
\* chip.get_tensix_locations() of the modelled chip: one column of tensix rows
TensixCores == {<<1, y>> : y \in 1..NumTensix}
\* a NOC location that is no tensix core (row 6 holds no tensix)
BadCore == <<1, 6>>
PhysCores == TensixCores \cup {BadCore}

\* sorted(): cores ordered by x, then y
CoreLess(c, d) == c[1] < d[1] \/ (c[1] = d[1] /\ c[2] < d[2])
RECURSIVE SortCores(_)
SortCores(S) == IF S = {} THEN <<>>
                ELSE LET m == CHOOSE c \in S : \A d \in S \ {c} : CoreLess(c, d)
                     IN <<m>> \o SortCores(S \ {m})

BinHeader == BIN_FILE_V1_MAGIC \o Zeros(28)
Chunk(address, data) == ChunkHeaderWrite(address, Len(data), 0) \o data

\* sample .bin contents
BinOneChunk == BinHeader \o Chunk(0, <<17, 18>>)
BinTwoChunks == BinHeader \o Chunk(0, <<17>>) \o Chunk(4, <<34>>)
BinOverlap == BinHeader \o Chunk(0, <<17>>) \o Chunk(0, <<34>>)
BinTruncChunkHeader == BinHeader \o Chunk(0, <<17>>) \o <<4, 0, 0>>
BinBadMagic == <<120, 86, 52, 18>> \o Zeros(28) \o Chunk(0, <<17>>)
BinHeaderOnly == BinHeader
BinZeroBytes == <<>>
BinPool == {BinOneChunk, BinTwoChunks, BinOverlap, BinTruncChunkHeader, BinBadMagic,
            BinHeaderOnly, BinZeroBytes}

\* sample .hex contents: "@0\n00000001\n00000002\n", "@0\n00000001\n@1\n00000002\n", ""
HexWord(d) == <<48, 48, 48, 48, 48, 48, 48, 48 + d, NL>>
HexOneBlock == <<AT, 48, NL>> \o HexWord(1) \o HexWord(2)
HexTwoBlocks == <<AT, 48, NL>> \o HexWord(1) \o <<AT, 49, NL>> \o HexWord(2)
HexZeroBytes == <<>>
HexPool == {HexOneBlock, HexTwoBlocks, HexZeroBytes}

RoleFiles == {"image.bin", "image.hex", "ckernels.bin", "ckernels.hex"}
\* m[4] of the file name pattern
ImageType(name) == IF name \in {"image.bin", "ckernels.bin"} THEN "bin" ELSE "hex"
\* archive entry names <<x-y, file>>; "0-0/test.yaml" does not match the pattern
FileNames == (LogicalCores \X RoleFiles) \cup {<<<<0, 0>>, "test.yaml">>}
ContentsOf(fn) == IF fn[2] = "test.yaml" THEN {HexOneBlock}
                  ELSE IF ImageType(fn[2]) = "bin" THEN BinPool ELSE HexPool

\* archives: at most MaxEntries entries, each with a sample content
Archives ==
    UNION {{a \in [S -> BinPool \cup HexPool] : \A fn \in S : a[fn] \in ContentsOf(fn)} :
           S \in {T \in SUBSET FileNames : Cardinality(T) <= MaxEntries}}

\* the target collections a mapping may give a logical core
TargetChoices == {{}, {<<1, 1>>}, TensixCores \ {<<1, NumTensix>>}, TensixCores, {BadCore}}
CoreMappings == UNION {[K -> TargetChoices] : K \in SUBSET LogicalCores}

(***************************************************************************)
(* Device requests.  A load is the sequence of requests the loader makes   *)
(* of the chip, in program order; a "raise" request is the point where an  *)
(* exception leaves load_ttx_file.  src names the archive entry whose      *)
(* chunk a request carries.                                                *)
(***************************************************************************)
NoCore == <<>>
Request(op, core, address, data, src) ==
    [op |-> op, core |-> core, address |-> address, data |-> data, src |-> src,
     msg |-> NoError]
RaiseReq(msg, src) == [Request("raise", NoCore, 0, <<>>, src) EXCEPT !.msg = msg]

\* Optional[Collection[CoreId]]
NoneCores == [none |-> TRUE, cores |-> {}]
SomeCores(S) == [none |-> FALSE, cores |-> S]

RECURSIVE FlatMap(_, _)
\* the concatenation of Op(s[1]), Op(s[2]), ...
FlatMap(Op(_), s) == IF s = <<>> THEN <<>> ELSE Op(Head(s)) \o FlatMap(Op, Tail(s))

\* LoadChunk writing a broadcast chunk core by core
LoadChunk_fanout(cores, chunk, src) ==
    LET targets == IF cores.none THEN TensixCores ELSE cores.cores
        W(core) == <<Request("noc_write", core, chunk.address, chunk.data, src)>>
    IN FlatMap(W, SortCores(targets))

\* the body of the for loop of load_bin / load_hex for one chunk
LoadChunk(cores, chunk, src) ==
    IF cores.none
    THEN <<Request("noc_broadcast", NoCore, chunk.address, chunk.data, src)>>
    ELSE LET W(core) == <<Request("noc_write", core, chunk.address, chunk.data, src)>>
         IN FlatMap(W, SortCores(cores.cores))

\* the body of the for loop of check_bin / check_hex for one chunk
CheckChunk(cores, chunk, src) ==
    LET targets == IF cores.none THEN TensixCores ELSE cores.cores
        R(core) == <<Request("noc_read", core, chunk.address, chunk.data, src)>>
    IN FlatMap(R, SortCores(targets))

Raises(decoded, src) == IF decoded.err # NoError THEN <<RaiseReq(decoded.err, src)>> ELSE <<>>

load_hex(cores, bytes, src) ==
    LET decoded == read_hex_image_chunks(bytes)
        L(chunk) == LoadChunk(cores, chunk, src)
    IN FlatMap(L, decoded.chunks) \o Raises(decoded, src)

check_hex(cores, bytes, src) ==
    LET decoded == read_hex_image_chunks(bytes)
        C(chunk) == CheckChunk(cores, chunk, src)
    IN FlatMap(C, decoded.chunks) \o Raises(decoded, src)

load_bin(cores, bytes, src) ==
    LET decoded == read_bin_image_chunks(bytes)
        L(chunk) == LoadChunk(cores, chunk, src)
    IN FlatMap(L, decoded.chunks) \o Raises(decoded, src)

check_bin(cores, bytes, src) ==
    LET decoded == read_bin_image_chunks(bytes)
        C(chunk) == CheckChunk(cores, chunk, src)
    IN FlatMap(C, decoded.chunks) \o Raises(decoded, src)

\* one "if <file> in infolist:" block of load_core
LoadFile(ttx, core, name, target_cores, no_check) ==
    LET fn == <<core, name>> IN
    IF fn \notin DOMAIN ttx THEN <<>>
    ELSE IF ImageType(name) = "hex"
    THEN load_hex(target_cores, ttx[fn], fn)
         \o (IF ~no_check THEN check_hex(target_cores, ttx[fn], fn) ELSE <<>>)
    ELSE load_bin(target_cores, ttx[fn], fn)
         \o (IF ~no_check THEN check_bin(target_cores, ttx[fn], fn) ELSE <<>>)

\* the order in which load_core visits the four files of a core
LoadOrder == <<"image.hex", "ckernels.hex", "image.bin", "ckernels.bin">>

\* load_ttx_file.load_core
load_core(ttx, core, target_cores, no_check) ==
    LET F(name) == LoadFile(ttx, core, name, target_cores, no_check)
    IN FlatMap(F, LoadOrder)

(***************************************************************************)
(* load_ttx_file: classification and validation.                           *)
(***************************************************************************)
\* info.file_size
FileSize(ttx, fn) == Len(ttx[fn])

\* NonEmptyPayload that ignores no entry
NonEmptyPayload_any(ttx, fn) == TRUE

\* the "ignore empty images" test of the classification loop
NonEmptyPayload(ttx, fn) ==
    \/ ImageType(fn[2]) = "bin" /\ FileSize(ttx, fn) > BIN_HEADER_SIZE
    \/ ImageType(fn[2]) = "hex" /\ FileSize(ttx, fn) > 0

\* files[name] after the classification loop
Classified(ttx, name) ==
    {fn[1] : fn \in {f \in DOMAIN ttx : f[2] = name /\ f[2] \in RoleFiles
                                        /\ NonEmptyPayload(ttx, f)}}

image_bins(ttx) == Classified(ttx, "image.bin")
\* files["image.hex"] -= files["image.bin"]
image_hex(ttx) == Classified(ttx, "image.hex") \ Classified(ttx, "image.bin")
ckernels_bins(ttx) == Classified(ttx, "ckernels.bin")
\* files["ckernels.hex"] -= files["ckernels.bin"]
ckernels_hex(ttx) == Classified(ttx, "ckernels.hex") \ Classified(ttx, "ckernels.bin")

all_source_cores(core_mapping) == DOMAIN core_mapping
all_target_cores(core_mapping) == UNION {core_mapping[k] : k \in DOMAIN core_mapping}

\* IsBroadcast accepting any subset of the tensix cores
IsBroadcast_subset(core_mapping) ==
    /\ DOMAIN core_mapping = {<<0, 0>>}
    /\ core_mapping[<<0, 0>>] \subseteq TensixCores

\* broadcast = keys == {CoreId(0, 0)} and set(core_mapping[CoreId(0, 0)]) == all_tensix_cores
IsBroadcast(core_mapping) ==
    /\ DOMAIN core_mapping = {<<0, 0>>}
    /\ core_mapping[<<0, 0>>] = TensixCores

\* an exception: its message, the cores its details list, and for a failed
\* read-back the core and address it names
Failure(msg, details) == [msg |-> msg, details |-> details, core |-> NoCore, address |-> 0]
NoFailure == Failure(NoError, {})

\* TargetsExist without the test
TargetsExist_unchecked(core_mapping) == TRUE

\* len(all_target_cores - all_tensix_cores) > 0 does not hold
TargetsExist(core_mapping) == all_target_cores(core_mapping) \ TensixCores = {}

\* the cores the ckernels-without-image message lists
CkernelsDetails(ttx) == ckernels_bins(ttx) \ image_bins(ttx)

\* the four raise statements of load_ttx_file before load_core, in order
Validate(ttx, core_mapping) ==
    IF ~TargetsExist(core_mapping)
    THEN Failure("core_mapping targets cores that do not exist.",
                 all_target_cores(core_mapping) \ TensixCores)
    ELSE IF image_bins(ttx) = {} /\ image_hex(ttx) = {}
    THEN Failure("TTX is empty.", {})
    ELSE IF (ckernels_bins(ttx) \cup ckernels_hex(ttx))
             \ (image_bins(ttx) \cup image_hex(ttx)) # {}
    THEN Failure("TTX has cores with ckernels but no image.", CkernelsDetails(ttx))
    ELSE IF (image_bins(ttx) \cup image_hex(ttx)) \ all_source_cores(core_mapping) # {}
    THEN Failure("TTX has images for cores with no physical mapping.",
                 (image_bins(ttx) \cup image_hex(ttx)) \ all_source_cores(core_mapping))
    ELSE NoFailure

\* the cores the per-core loop visits
SourceCores(ttx) == image_bins(ttx)

\* the requests of the final if/else of load_ttx_file
LoadRequests(ttx, core_mapping, no_check) ==
    IF IsBroadcast(core_mapping)
    THEN load_core(ttx, <<0, 0>>, NoneCores, no_check)
    ELSE LET P(source_core) ==
                 load_core(ttx, source_core, SomeCores(core_mapping[source_core]), no_check)
         IN FlatMap(P, SortCores(SourceCores(ttx)))

\* the value load_ttx_file returns
ReturnValue(ttx, core_mapping) ==
    IF IsBroadcast(core_mapping) THEN TensixCores ELSE image_bins(ttx)

(***************************************************************************)
(* The state machine: one call of load_ttx_file against a chip.            *)
(***************************************************************************)
\* bytes of device memory modelled per core
MemSize == 8
MemAddrs == 0..(MemSize - 1)

VARIABLES
    ttx,            \* the archive: entry name -> content
    core_mapping,   \* logical core -> physical target cores
    no_check,       \* the no_check argument
    pc,             \* "idle", "loading", "returned", "raised"
    pending,        \* the requests the call has still to make
    log,            \* the device operations issued so far, in order
    mem,            \* device memory: core -> address -> byte
    error,          \* the exception raised, NoFailure if none
    result,         \* the returned set
    glitched,       \* a read returned something else than the memory content
    stream,         \* codec: the bytes handed to a decoder
    origin,         \* codec: what the stream was built from
    decoded,        \* codec: what the decoder yielded and raised
    devmem,         \* checks: device memory read by completion checks
    checks,         \* checks: _checks of the current TtxCompletionChecks
    source,         \* checks: _checks of the instance it was made from
    mapping,        \* checks: the core_mapping given to remap_to_physical
    call,           \* checks: the operation called last, with its arguments
    reads,          \* checks: the noc_read calls issued, in order
    block,          \* checks: the bytes _read_block returned
    outcome,        \* checks: what test returned
    heap,           \* instances: the assertion lists, by identity
    instances,      \* instances: the TtxCompletionChecks objects made so far
    touched,        \* instances: the instance whose list was changed last
    prev,           \* instances: what each instance held before the last step
    arch,           \* chip: "Wormhole", "Grayskull" or "Blackhole"
    device,         \* chip: what the device reports when asked now
    harvesting_bits,\* chip: TTChip._harvesting_bits, NoBits for None
    telmetry_cache, \* chip: TTChip.telmetry_cache, NoTelemetry for None
    locations,      \* chip: what get_tensix_locations returned last
    chip_op,        \* chip: the operation called last
    reinits,        \* chip: the number of reinit() calls
    args,           \* main: the parsed command line
    via,            \* main: who called the start routine
    params,         \* main: the parameters the start routine received
    mpc             \* main: the position of the start routine

\* the state of a load
loaderVars == <<ttx, core_mapping, no_check, pc, pending, log, mem, error, result, glitched>>
\* the state of a decoder run
codecVars == <<stream, origin, decoded>>
\* the state outside a load
\* the state of a TtxCompletionChecks instance and its device
checkVars == <<devmem, checks, source, mapping, call, reads, block, outcome>>
\* the lists and instances of a chain of transformations
aliasVars == <<heap, instances, touched, prev>>
\* the state of the later parts
\* the state of a TTChip and of the device behind it
chipVars == <<arch, device, harvesting_bits, telmetry_cache, locations, chip_op, reinits>>
\* the state of a run of tt-burnin on one device
mainVars == <<args, via, params, mpc>>
laterVars == <<aliasVars, chipVars, mainVars>>
otherVars == <<codecVars, checkVars, laterVars>>

vars == <<loaderVars, otherVars>>

\* no stream, nothing decoded
NoOrigin == [kind |-> "none"]
NotDecoded == [by |-> "none", chunks |-> <<>>, err |-> NoError]
CodecIdle == stream = <<>> /\ origin = NoOrigin /\ decoded = NotDecoded

\* no load has been called
LoaderIdle ==
    /\ ttx = <<>>
    /\ core_mapping = <<>>
    /\ no_check = FALSE
    /\ pc = "idle"
    /\ pending = <<>>
    /\ log = <<>>
    /\ mem = [c \in PhysCores |-> [a \in MemAddrs |-> 0]]
    /\ error = NoFailure
    /\ result = {}
    /\ glitched = FALSE

\* no completion check instance, nothing called on one
NoCall == [op |-> "none"]
ChecksIdle ==
    /\ devmem = <<>>
    /\ checks = <<>>
    /\ source = <<>>
    /\ mapping = <<>>
    /\ call = NoCall
    /\ reads = <<>>
    /\ block = <<>>
    /\ outcome = "none"

\* no instance made
AliasIdle ==
    /\ heap = <<>>
    /\ instances = <<>>
    /\ touched = 0
    /\ prev = <<>>

\* no chip detected
NoBits == -1
NoTelemetry == [none |-> TRUE]
NoDevice == [none |-> TRUE]
ChipIdle ==
    /\ arch = "none"
    /\ device = NoDevice
    /\ harvesting_bits = NoBits
    /\ telmetry_cache = NoTelemetry
    /\ locations = {}
    /\ chip_op = "none"
    /\ reinits = 0

\* tt-burnin not started
NoArgs == [none |-> TRUE]
MainIdle ==
    /\ args = NoArgs
    /\ via = "none"
    /\ params = NoArgs
    /\ mpc = "none"

LaterIdle == AliasIdle /\ ChipIdle /\ MainIdle

Init == LoaderIdle /\ CodecIdle /\ ChecksIdle /\ LaterIdle

\* load_ttx_file up to the definition of load_core: validation
Call ==
    /\ pc = "idle"
    /\ \E a \in Archives, m \in CoreMappings, nc \in BOOLEAN :
        LET failure == Validate(a, m) IN
        /\ ttx' = a
        /\ core_mapping' = m
        /\ no_check' = nc
        /\ error' = failure
        /\ IF failure.msg # NoError
           THEN pc' = "raised" /\ pending' = <<>>
           ELSE pc' = "loading" /\ pending' = LoadRequests(a, m, nc)
    /\ UNCHANGED <<log, mem, result, glitched>>
    /\ UNCHANGED otherVars

\* memory of one core after a write of data at address
WriteMem(m, address, data) ==
    [a \in MemAddrs |-> IF a - address + 1 \in 1..Len(data) THEN data[a - address + 1] ELSE m[a]]
\* the bytes of a core at [address, address + n)
ReadMem(m, address, n) ==
    [i \in 1..n |-> IF address + i - 1 \in MemAddrs THEN m[address + i - 1] ELSE 0]
\* some content that differs from data (data itself when it is empty)
Corrupt(data) == [i \in 1..Len(data) |-> IF i = 1 THEN (data[1] + 1) % 256 ELSE data[i]]

Logged(req, got) == [op |-> req.op, core |-> req.core, address |-> req.address,
                     data |-> req.data, src |-> req.src, got |-> got]

\* chip.noc_write(0, *core, address, data)
NocWrite ==
    /\ pc = "loading" /\ pending # <<>> /\ Head(pending).op = "noc_write"
    /\ LET r == Head(pending) IN
        /\ log' = Append(log, Logged(r, <<>>))
        /\ mem' = [mem EXCEPT ![r.core] = WriteMem(@, r.address, r.data)]
    /\ pending' = Tail(pending)
    /\ UNCHANGED <<ttx, core_mapping, no_check, pc, error, result, glitched>>
    /\ UNCHANGED otherVars

\* chip.noc_broadcast(0, address, data): every tensix core is written
NocBroadcast ==
    /\ pc = "loading" /\ pending # <<>> /\ Head(pending).op = "noc_broadcast"
    /\ LET r == Head(pending) IN
        /\ log' = Append(log, Logged(r, <<>>))
        /\ mem' = [c \in PhysCores |-> IF c \in TensixCores
                                       THEN WriteMem(mem[c], r.address, r.data) ELSE mem[c]]
    /\ pending' = Tail(pending)
    /\ UNCHANGED <<ttx, core_mapping, no_check, pc, error, result, glitched>>
    /\ UNCHANGED otherVars

\* chip.noc_read(0, *core, address, buffer) and the comparison that follows it
NocRead ==
    /\ pc = "loading" /\ pending # <<>> /\ Head(pending).op = "noc_read"
    /\ LET r == Head(pending)
           stored == ReadMem(mem[r.core], r.address, Len(r.data))
       IN \E got \in {stored, Corrupt(stored)} :
            /\ log' = Append(log, Logged(r, got))
            /\ glitched' = (glitched \/ got # stored)
            /\ IF got # r.data
               THEN /\ pc' = "raised"
                    /\ pending' = <<>>
                    /\ error' = [Failure("Failed to write to core", {})
                                   EXCEPT !.core = r.core, !.address = r.address]
               ELSE /\ pending' = Tail(pending)
                    /\ UNCHANGED <<pc, error>>
    /\ UNCHANGED <<ttx, core_mapping, no_check, mem, result>>
    /\ UNCHANGED otherVars

\* an exception raised while an archive entry is decoded
Raise ==
    /\ pc = "loading" /\ pending # <<>> /\ Head(pending).op = "raise"
    /\ pc' = "raised"
    /\ error' = Failure(Head(pending).msg, {})
    /\ pending' = <<>>
    /\ UNCHANGED <<ttx, core_mapping, no_check, log, mem, result, glitched>>
    /\ UNCHANGED otherVars

\* return all_tensix_cores / return image_bins
Return ==
    /\ pc = "loading" /\ pending = <<>>
    /\ pc' = "returned"
    /\ result' = ReturnValue(ttx, core_mapping)
    /\ UNCHANGED <<ttx, core_mapping, no_check, pending, log, mem, error, glitched>>
    /\ UNCHANGED otherVars

Next == Call \/ NocWrite \/ NocBroadcast \/ NocRead \/ Raise \/ Return

Spec == Init /\ [][Next]_vars

(***************************************************************************)
(* Properties of load_ttx_file.                                            *)
(***************************************************************************)

\* C1: when the load fails with a format error or a mapping error, no
\* noc_write and no noc_broadcast has been issued before the failure.
C1_NoWriteBeforeFormatOrMappingError ==
    LET FormatErrors == {"Image file is truncated within binary file header.",
                         "Image file does not start with expected magic.",
                         "Image file header contains nonzero in MBZ field.",
                         "Image file is truncated within chunk header.",
                         "Chunk header contains nonzero in MBZ field.",
                         "Image file is truncated within data chunk."}
        MappingErrors == {"core_mapping targets cores that do not exist.",
                          "TTX has cores with ckernels but no image.",
                          "TTX has images for cores with no physical mapping."}
    IN (pc = "raised" /\ error.msg \in FormatErrors \cup MappingErrors)
       => \A i \in DOMAIN log : log[i].op \notin {"noc_write", "noc_broadcast"}

\* C2: for every logical core, every write of a chunk of its image file is
\* issued before every write of a chunk of its ckernels file.
C2_ImageWritesBeforeCkernelsWrites ==
    \A i, j \in DOMAIN log :
        ( /\ log[i].op \in {"noc_write", "noc_broadcast"}
          /\ log[j].op \in {"noc_write", "noc_broadcast"}
          /\ log[i].src[1] = log[j].src[1]
          /\ log[i].src[2] \in {"image.bin", "image.hex"}
          /\ log[j].src[2] \in {"ckernels.bin", "ckernels.hex"} )
        => i < j

\* C3: a successful per-core load has written every chunk of the image of
\* every logical core with a non-empty image entry to every physical core the
\* mapping lists for it.
C3_PerCoreLoadIsComplete ==
    LET PerCore == ~(DOMAIN core_mapping = {<<0, 0>>} /\ core_mapping[<<0, 0>>] = TensixCores)
        HasBin(c) == <<c, "image.bin">> \in DOMAIN ttx
                     /\ Len(ttx[<<c, "image.bin">>]) > BIN_HEADER_SIZE
        HasHex(c) == <<c, "image.hex">> \in DOMAIN ttx /\ Len(ttx[<<c, "image.hex">>]) > 0
        ImageChunks(c) == IF HasBin(c) THEN read_bin_image_chunks(ttx[<<c, "image.bin">>]).chunks
                          ELSE read_hex_image_chunks(ttx[<<c, "image.hex">>]).chunks
    IN (pc = "returned" /\ PerCore) =>
         \A c \in LogicalCores : (HasBin(c) \/ HasHex(c)) =>
            \A k \in DOMAIN ImageChunks(c) : \A p \in core_mapping[c] :
               \E i \in DOMAIN log : /\ log[i].op = "noc_write"
                                     /\ log[i].core = p
                                     /\ log[i].address = ImageChunks(c)[k].address
                                     /\ log[i].data = ImageChunks(c)[k].data

\* C4: on success, a broadcast load returns the full tensix set; a per-core
\* load returns logical cores, and a logical core is returned if and only if
\* chunks of its image were written during the call.
C4_ReturnsTheLoadedCores ==
    LET Broadcast == DOMAIN core_mapping = {<<0, 0>>} /\ core_mapping[<<0, 0>>] = TensixCores
        ImageWritten(c) == \E i \in DOMAIN log :
                              /\ log[i].op \in {"noc_write", "noc_broadcast"}
                              /\ log[i].src[1] = c
                              /\ log[i].src[2] \in {"image.bin", "image.hex"}
    IN pc = "returned" =>
         IF Broadcast THEN result = TensixCores
         ELSE /\ result \subseteq DOMAIN core_mapping
              /\ \A c \in LogicalCores : c \in result <=> ImageWritten(c)

\* C5: in a per-core load with verification, every noc_write is immediately
\* followed by a noc_read of the same core, address and length, and a
\* read-back that differs aborts the load naming that core and address.
C5_WriteImmediatelyReadBack ==
    LET PerCore == ~(DOMAIN core_mapping = {<<0, 0>>} /\ core_mapping[<<0, 0>>] = TensixCores)
    IN (PerCore /\ ~no_check) =>
         \A i \in DOMAIN log :
            /\ (log[i].op = "noc_write" /\ i < Len(log)) =>
                  /\ log[i + 1].op = "noc_read"
                  /\ log[i + 1].core = log[i].core
                  /\ log[i + 1].address = log[i].address
                  /\ Len(log[i + 1].got) = Len(log[i].data)
            /\ (log[i].op = "noc_write" /\ i = Len(log)) => pc # "returned"
            /\ (log[i].op = "noc_read" /\ log[i].got # log[i].data) =>
                  /\ pc = "raised"
                  /\ error.core = log[i].core
                  /\ error.address = log[i].address

\* C6 (as claimed): a broadcast load issues noc_broadcast only, and no
\* noc_read of an individual core, whether or not verification was requested.
C6_BroadcastNeverReads ==
    (DOMAIN core_mapping = {<<0, 0>>} /\ core_mapping[<<0, 0>>] = TensixCores)
    => \A i \in DOMAIN log : log[i].op = "noc_broadcast"

\* C6 (amended): a broadcast load never issues noc_write; with no_check it
\* issues no noc_read; with verification it has, on return, read back every
\* broadcast chunk from every tensix core.
C6_BroadcastWritesOnlyByBroadcast ==
    (DOMAIN core_mapping = {<<0, 0>>} /\ core_mapping[<<0, 0>>] = TensixCores)
    => /\ \A i \in DOMAIN log : log[i].op # "noc_write"
       /\ no_check => \A i \in DOMAIN log : log[i].op # "noc_read"
       /\ (pc = "returned" /\ ~no_check) =>
             \A i \in DOMAIN log : log[i].op = "noc_broadcast" =>
                \A c \in TensixCores : \E j \in DOMAIN log :
                    /\ j > i
                    /\ log[j].op = "noc_read"
                    /\ log[j].core = c
                    /\ log[j].address = log[i].address
                    /\ log[j].got = log[i].data

C6_Witness ==
    /\ pc = "returned"
    /\ DOMAIN core_mapping = {<<0, 0>>} /\ core_mapping[<<0, 0>>] = TensixCores
    /\ ~no_check
    /\ \E i, j \in DOMAIN log : log[i].op = "noc_broadcast" /\ log[j].op = "noc_read"

\* C7: the load is a broadcast load if and only if the mapping has the single
\* key CoreId(0,0) and its targets are the full tensix set: chunks are
\* broadcast exactly under such a mapping and written core by core under any
\* other, and the full tensix set is returned exactly under such a mapping.
C7_BroadcastIffFullMappingOfOrigin ==
    LET Full == DOMAIN core_mapping = {<<0, 0>>} /\ core_mapping[<<0, 0>>] = TensixCores
    IN /\ \A i \in DOMAIN log : /\ log[i].op = "noc_broadcast" => Full
                                /\ log[i].op = "noc_write" => ~Full
       /\ (pc = "returned" /\ Full) => result = TensixCores
       /\ (pc = "returned" /\ ~Full) => result \subseteq LogicalCores

C7_Witness ==
    /\ DOMAIN core_mapping = {<<0, 0>>}
    /\ core_mapping[<<0, 0>>] = TensixCores \ {<<1, NumTensix>>}
    /\ pc = "returned"
    /\ \E i \in DOMAIN log : log[i].op = "noc_write"

C9_DeviceOperationsOnlyAfterMappingChecks ==
    LET NonEmpty(c, name) == /\ <<c, name>> \in DOMAIN ttx
                             /\ Len(ttx[<<c, name>>]) >
                                  (IF name = "image.bin" THEN BIN_HEADER_SIZE ELSE 0)
        ImageCores == {c \in LogicalCores : NonEmpty(c, "image.bin") \/ NonEmpty(c, "image.hex")}
        Mapped == /\ ImageCores \subseteq DOMAIN core_mapping
                  /\ \A k \in DOMAIN core_mapping : core_mapping[k] \subseteq TensixCores
    IN /\ log # <<>> => Mapped
       /\ (pc # "idle" /\ ~Mapped) => (pc = "raised" /\ log = <<>>)
       /\ \A i \in DOMAIN log : log[i].op = "noc_write" => log[i].core \in TensixCores

C9_Witness ==
    /\ DOMAIN core_mapping = LogicalCores
    /\ \E i \in DOMAIN log : log[i].op = "noc_write" /\ log[i].src[1] = <<5, 5>>
    /\ \E i \in DOMAIN log : log[i].op = "noc_read"

\* C10 (as claimed): an archive without an image entry of non-empty payload
\* fails with the empty-archive error and issues no device operation.
C10_EmptyArchiveError ==
    LET NonEmpty(c, name) == /\ <<c, name>> \in DOMAIN ttx
                             /\ Len(ttx[<<c, name>>]) >
                                  (IF name = "image.bin" THEN BIN_HEADER_SIZE ELSE 0)
        NoImage == \A c \in LogicalCores : ~NonEmpty(c, "image.bin") /\ ~NonEmpty(c, "image.hex")
    IN (pc # "idle" /\ NoImage)
       => (pc = "raised" /\ log = <<>> /\ error.msg = "TTX is empty.")

\* C10 (amended): an archive without an image entry of non-empty payload
\* fails without any device operation: with the empty-archive error when every
\* mapping target is a tensix core, with the mapping-target error otherwise.
C10_EmptyArchiveFailsWithoutDeviceOperation ==
    LET NonEmpty(c, name) == /\ <<c, name>> \in DOMAIN ttx
                             /\ Len(ttx[<<c, name>>]) >
                                  (IF name = "image.bin" THEN BIN_HEADER_SIZE ELSE 0)
        NoImage == \A c \in LogicalCores : ~NonEmpty(c, "image.bin") /\ ~NonEmpty(c, "image.hex")
        TargetsValid == \A k \in DOMAIN core_mapping : core_mapping[k] \subseteq TensixCores
    IN (pc # "idle" /\ NoImage)
       => /\ pc = "raised"
          /\ log = <<>>
          /\ error.msg = (IF TargetsValid THEN "TTX is empty."
                          ELSE "core_mapping targets cores that do not exist.")

C10_Witness ==
    /\ pc = "raised"
    /\ error.msg = "TTX is empty."
    /\ <<<<5, 5>>, "ckernels.bin">> \in DOMAIN ttx
    /\ Len(ttx[<<<<5, 5>>, "ckernels.bin">>]) > BIN_HEADER_SIZE
    /\ <<<<5, 5>>, "image.bin">> \in DOMAIN ttx
    /\ Len(ttx[<<<<5, 5>>, "image.bin">>]) <= BIN_HEADER_SIZE

\* C11: bin shadows hex per role: when a core has a non-empty bin entry for a
\* role, no device request carries a chunk of that core's hex entry for the
\* same role.
C11_ShadowedHexNeverLoaded ==
    LET BinOf(name) == IF name = "image.hex" THEN "image.bin" ELSE "ckernels.bin"
        Shadowed(fn) == /\ fn[2] \in {"image.hex", "ckernels.hex"}
                        /\ <<fn[1], BinOf(fn[2])>> \in DOMAIN ttx
                        /\ Len(ttx[<<fn[1], BinOf(fn[2])>>]) > BIN_HEADER_SIZE
    IN \A i \in DOMAIN log : ~Shadowed(log[i].src)

\* C12: an entry with an empty payload (.bin of at most 32 bytes, .hex of 0
\* bytes) is ignored: no device request carries a chunk of it and no exception
\* arises from decoding it.
C12_EmptyPayloadEntryIgnored ==
    LET Empty(fn) == Len(ttx[fn]) <= (IF fn[2] \in {"image.bin", "ckernels.bin"}
                                      THEN BIN_HEADER_SIZE ELSE 0)
    IN /\ \A i \in DOMAIN log : ~Empty(log[i].src)
       /\ (pc = "loading" /\ pending # <<>>) => ~Empty(Head(pending).src)

(***************************************************************************)
(* The decoders on their own: a stream is built from a description (its   *)
(* origin), then read_bin_image_chunks or read_hex_image_chunks decodes it.*)
(***************************************************************************)
\* largest number of chunk records of a binary stream
MaxChunks == 2
\* largest number of lines of a hex stream
MaxLines == 3

\* sequences over S of length at most n
SeqsUpTo(S, n) == UNION {[1..k -> S] : k \in 0..n}

RECURSIVE Concat(_)
\* the concatenation of a sequence of sequences
Concat(ss) == IF ss = <<>> THEN <<>> ELSE Head(ss) \o Concat(Tail(ss))

\* chunk records: address, payload and the reserved word of the chunk header
\* (16909060 = 0x01020304)
ChunkRecords == [address : {0, 16909060}, data : {<<>>, <<17, 18>>}, mbz : {0, 1}]

\* the file header as written: good, with magic 0x12345678, or with a nonzero
\* reserved word
HeaderBytes(hdr) == IF hdr = "good" THEN BinHeader
                    ELSE IF hdr = "magic" THEN <<120, 86, 52, 18>> \o Zeros(28)
                    ELSE BIN_FILE_V1_MAGIC \o Zeros(27) \o <<1>>

\* one record as written: ChunkHeader(address, len(data), mbz).write, then data
RecordBytes(rec) == ChunkHeaderWrite(rec.address, Len(rec.data), rec.mbz) \o rec.data

\* the container written from a header and records
EncodeBin(hdr, records) ==
    HeaderBytes(hdr) \o Concat([i \in DOMAIN records |-> RecordBytes(records[i])])

\* descriptions of binary streams: the first cut bytes of a written container
BinOrigins ==
    {o \in [kind : {"bin"}, hdr : {"good", "magic", "mbz"},
            records : SeqsUpTo(ChunkRecords, MaxChunks),
            cut : 0..(BIN_HEADER_SIZE + MaxChunks * (CHUNK_HEADER_SIZE + 2))] :
        o.cut <= Len(EncodeBin(o.hdr, o.records))}

BinStream(o) == SubSeq(EncodeBin(o.hdr, o.records), 1, o.cut)

\* lines of hex text, without their newline, and what they stand for:
\* "@0", "@1f" (word addresses 0 and 31), "00000001", "00000002", "0a0B0c0D"
\* (words, with their little-endian bytes), "" (blank)
HexItems ==
    { [kind |-> "dir", text |-> <<AT, 48>>, value |-> 0, bytes |-> <<>>],
      [kind |-> "dir", text |-> <<AT, 49, 102>>, value |-> 31, bytes |-> <<>>],
      [kind |-> "word", text |-> <<48, 48, 48, 48, 48, 48, 48, 49>>, value |-> 0,
       bytes |-> <<1, 0, 0, 0>>],
      [kind |-> "word", text |-> <<48, 48, 48, 48, 48, 48, 48, 50>>, value |-> 0,
       bytes |-> <<2, 0, 0, 0>>],
      [kind |-> "word", text |-> <<48, 97, 48, 66, 48, 99, 48, 68>>, value |-> 0,
       bytes |-> <<13, 12, 11, 10>>],
      [kind |-> "blank", text |-> <<>>, value |-> 0, bytes |-> <<>>] }

\* descriptions of hex streams: lines, the last one with or without newline
HexOrigins == [kind : {"hex"}, items : SeqsUpTo(HexItems, MaxLines), newline : BOOLEAN]

HexStream(o) ==
    LET n == Len(o.items)
        Line(i) == o.items[i].text \o (IF i < n \/ o.newline THEN <<NL>> ELSE <<>>)
    IN Concat([i \in 1..n |-> Line(i)])

\* a stream is handed to the decoder of its kind
CodecInit ==
    /\ LoaderIdle
    /\ ChecksIdle
    /\ LaterIdle
    /\ origin \in BinOrigins \cup HexOrigins
    /\ stream = (IF origin.kind = "bin" THEN BinStream(origin) ELSE HexStream(origin))
    /\ decoded = NotDecoded

\* list(read_bin_image_chunks(f))
DecodeBin ==
    /\ decoded.by = "none" /\ origin.kind = "bin"
    /\ decoded' = [by |-> "bin"] @@ read_bin_image_chunks(stream)
    /\ UNCHANGED <<loaderVars, checkVars, laterVars, stream, origin>>

\* list(read_hex_image_chunks(f))
DecodeHex ==
    /\ decoded.by = "none" /\ origin.kind = "hex"
    /\ decoded' = [by |-> "hex"] @@ read_hex_image_chunks(stream)
    /\ UNCHANGED <<loaderVars, checkVars, laterVars, stream, origin>>

CodecNext == DecodeBin \/ DecodeHex

SpecCodec == CodecInit /\ [][CodecNext]_vars


\* the pairs (address, data) of a sequence of records
PairsOf(records) ==
    [i \in DOMAIN records |-> [address |-> records[i].address, data |-> records[i].data]]

\* the number of leading records of a binary origin that are complete in its
\* stream and have a zero reserved field
CompleteRecords(o) ==
    LET Fits(k) == /\ Len(EncodeBin(o.hdr, SubSeq(o.records, 1, k))) <= o.cut
                   /\ \A i \in 1..k : o.records[i].mbz = 0
    IN CHOOSE k \in 0..Len(o.records) :
           Fits(k) /\ \A j \in 0..Len(o.records) : Fits(j) => j <= k

\* the stream is a full header that passes the checks
HeaderAccepted(o) == o.hdr = "good" /\ o.cut >= BIN_HEADER_SIZE

\* the stream is exactly a good header followed by complete records
ExactlyHeaderAndRecords(o) ==
    /\ HeaderAccepted(o)
    /\ o.cut = Len(EncodeBin(o.hdr, SubSeq(o.records, 1, CompleteRecords(o))))

\* C13: binary decode completes without error if and only if the stream is
\* exactly a good 32-byte header followed by zero or more complete records;
\* a bad magic or a nonzero header reserved word fails before any chunk is
\* yielded; a truncated chunk header, a truncated payload or a nonzero chunk
\* reserved field fails after yielding exactly the preceding complete chunks.
C13_BinDecodeAcceptsExactlyWellFormed ==
    decoded.by = "bin" =>
        /\ (decoded.err = NoError) <=> ExactlyHeaderAndRecords(origin)
        /\ ~HeaderAccepted(origin) => decoded.chunks = <<>>
        /\ HeaderAccepted(origin) =>
               decoded.chunks = PairsOf(SubSeq(origin.records, 1, CompleteRecords(origin)))

\* a stream cut inside its second chunk header was decoded: one chunk, then
\* the error
C13_Witness ==
    /\ decoded.by = "bin"
    /\ origin.hdr = "good"
    /\ Len(origin.records) = 2
    /\ origin.records[1].mbz = 0
    /\ origin.cut = BIN_HEADER_SIZE + CHUNK_HEADER_SIZE + Len(origin.records[1].data) + 5
    /\ Len(decoded.chunks) = 1
    /\ decoded.err = "Image file is truncated within chunk header."

\* a container written with a good header and zero reserved fields, whole
WrittenWhole(o) ==
    /\ o.kind = "bin"
    /\ o.hdr = "good"
    /\ \A i \in DOMAIN o.records : o.records[i].mbz = 0
    /\ o.cut = Len(EncodeBin(o.hdr, o.records))

\* C14: round trip: writing the header and each chunk's ChunkHeader.write
\* output and payload, then decoding, yields exactly the original sequence of
\* (address, bytes) pairs in the original order.
C14_BinRoundTrip ==
    (decoded.by = "bin" /\ WrittenWhole(origin)) =>
        /\ decoded.err = NoError
        /\ decoded.chunks = PairsOf(origin.records)

\* two chunks with different addresses and payloads came back
C14_Witness ==
    /\ decoded.by = "bin"
    /\ WrittenWhole(origin)
    /\ Len(origin.records) = 2
    /\ origin.records[1].address # origin.records[2].address
    /\ origin.records[1].data # origin.records[2].data
    /\ decoded.chunks = PairsOf(origin.records)


\* the first line of a hex origin that is not blank is a directive
StartsWithDirective(o) ==
    \E i \in DOMAIN o.items :
        /\ o.items[i].kind = "dir"
        /\ \A j \in 1..(i - 1) : o.items[j].kind = "blank"

\* the bytes of the words between directive line i and the next directive
WordsAfter(items, i) ==
    LET later == {j \in (i + 1)..Len(items) : items[j].kind = "dir"}
        stop == IF later = {} THEN Len(items) + 1
                ELSE CHOOSE j \in later : \A k \in later : j <= k
    IN Concat([j \in 1..(stop - 1 - i) |-> items[i + j].bytes])

\* one block per directive that is followed by at least one word, in order
ExpectedBlocks(items) ==
    LET Emits(i) == items[i].kind = "dir" /\ WordsAfter(items, i) # <<>>
        dirs == SelectSeq([i \in DOMAIN items |-> i], Emits)
    IN [k \in DOMAIN dirs |->
           [address |-> 4 * items[dirs[k]].value, data |-> WordsAfter(items, dirs[k])]]

\* "@0", "00000001", "00000002" gives one block (0, 01 00 00 00 02 00 00 00)
HexExample ==
    (decoded.by = "hex"
     /\ stream = <<AT, 48, NL>> \o <<48, 48, 48, 48, 48, 48, 48, 49, NL>>
                 \o <<48, 48, 48, 48, 48, 48, 48, 50, NL>>)
    => decoded.chunks = <<[address |-> 0, data |-> <<1, 0, 0, 0, 2, 0, 0, 0>>]>>

PayloadLess(o) ==
    \/ o.kind = "hex" /\ \A i \in DOMAIN o.items : o.items[i].kind # "word"
    \/ o.kind = "bin" /\ o.cut = 0
    \/ o.kind = "bin" /\ o.hdr = "good" /\ o.cut = BIN_HEADER_SIZE

\* C16: both decoders tolerate zero-length payloads: a payload-less input
\* (hex: empty stream or directives without words; bin: header only or zero
\* bytes) decodes without error to the empty sequence, and no decoder ever
\* emits a chunk whose data is empty, a bin record of length 0 included.
C16_ZeroLengthPayloadsTolerated ==
    decoded.by # "none" =>
        /\ PayloadLess(origin) => (decoded.err = NoError /\ decoded.chunks = <<>>)
        /\ \A i \in DOMAIN decoded.chunks : decoded.chunks[i].data # <<>>


(***************************************************************************)
(* Completion checks: TtxCompletionChecks._read_block on its own.          *)
(***************************************************************************)
\* largest address and length asked of _read_block
MaxAddress == 33
MaxLength == 17

\* the alignment of completion-check reads
READ_ALIGNMENT == 16

\* device addresses: enough for every aligned read of the addresses above
DevAddrs == 0..(READ_ALIGNMENT * ((MaxAddress + MaxLength) \div READ_ALIGNMENT + 1) - 1)

\* device memory contents: every byte differs from its neighbours and from
\* the byte at the same address of the other cores
DevImage(k) == [c \in TensixCores |-> [a \in DevAddrs |-> (k * a + 16 * c[2] + c[1]) % 256]]
DevImages == {DevImage(1), DevImage(3)}

\* chip.noc_read(0, *core, addr, buffer): fills the buffer from device memory
noc_read(memory, core, addr, n) == [i \in 1..n |-> memory[core][addr + i - 1]]

\* read_address without alignment
read_address_unaligned(address) == address

\* _read_block: read_address = address - address % 16
read_address(address) == address - (address % READ_ALIGNMENT)

\* read_length with the rounding added even when it is a whole block
read_length_always(address, length) ==
    LET alignment_offset == address % READ_ALIGNMENT
        unrounded == length + alignment_offset
    IN unrounded + (READ_ALIGNMENT - (unrounded % READ_ALIGNMENT))

\* _read_block: read_length, rounded up unless it is a multiple of 16 already
read_length(address, length) ==
    LET alignment_offset == address % READ_ALIGNMENT
        unrounded == length + alignment_offset
        read_rounding == READ_ALIGNMENT - (unrounded % READ_ALIGNMENT)
    IN unrounded + (IF read_rounding < READ_ALIGNMENT THEN read_rounding ELSE 0)

\* _read_block: the one noc_read it issues and the slice it returns
read_block(memory, core, address, length) ==
    LET alignment_offset == address % READ_ALIGNMENT
        buffer == noc_read(memory, core, read_address(address), read_length(address, length))
    IN [read |-> [core |-> core, address |-> read_address(address),
                  length |-> read_length(address, length), buffer |-> buffer],
        data |-> SubSeq(buffer, alignment_offset + 1, alignment_offset + length)]

\* a device, no instance state needed
ReadInit ==
    /\ LoaderIdle
    /\ CodecIdle
    /\ LaterIdle
    /\ devmem \in DevImages
    /\ checks = <<>> /\ source = <<>> /\ mapping = <<>>
    /\ call = NoCall /\ reads = <<>> /\ block = <<>> /\ outcome = "none"

\* self._read_block(chip, core, address, length)
ReadBlock ==
    /\ call = NoCall
    /\ \E core \in TensixCores, address \in 0..MaxAddress, length \in 0..MaxLength :
        LET r == read_block(devmem, core, address, length) IN
        /\ call' = [op |-> "_read_block", core |-> core, address |-> address,
                    length |-> length]
        /\ reads' = Append(reads, r.read)
        /\ block' = r.data
    /\ UNCHANGED <<loaderVars, codecVars, laterVars, devmem, checks, source, mapping, outcome>>

ReadNext == ReadBlock

SpecRead == ReadInit /\ [][ReadNext]_vars

\* the bytes of device memory at [address, address + length) of a core
DeviceBytes(memory, core, address, length) ==
    [i \in 1..length |-> memory[core][address + i - 1]]

\* C17 as stated: 4 bytes at address 18 are read by one device read at
\* address 16 of length 32, and bytes 2..6 of the block are what is compared.
C17_AlignedReadOfLength32 ==
    (call.op = "_read_block" /\ call.address = 18 /\ call.length = 4) =>
        /\ Len(reads) = 1
        /\ reads[1].address = 16 /\ reads[1].length = 32
        /\ block = SubSeq(reads[1].buffer, 3, 6)

\* C17: a completion check of 4 bytes at address 18 issues exactly one device
\* read, at address 16 and of length 16, and compares bytes 2..6 of the
\* returned block with the expected bytes.
C17_AlignedReadOfLength16 ==
    (call.op = "_read_block" /\ call.address = 18 /\ call.length = 4) =>
        /\ Len(reads) = 1
        /\ reads[1].address = 16 /\ reads[1].length = 16
        /\ Len(reads[1].buffer) = 16
        /\ block = SubSeq(reads[1].buffer, 3, 6)

\* 4 bytes at address 18 were read
C17_Witness ==
    /\ call.op = "_read_block" /\ call.address = 18 /\ call.length = 4
    /\ Len(block) = 4
    /\ reads # <<>>

\* C18: _read_block issues exactly one noc_read, starting at the greatest
\* multiple of 16 that is <= address, of the smallest multiple-of-16 length
\* that reaches address + length, and returns exactly the length bytes of
\* device memory at [address, address + length).
C18_ReadBlockAlignedCover ==
    call.op = "_read_block" =>
        /\ Len(reads) = 1
        /\ reads[1].core = call.core
        /\ reads[1].address % 16 = 0
        /\ reads[1].address <= call.address
        /\ call.address < reads[1].address + 16
        /\ reads[1].length % 16 = 0
        /\ reads[1].address + reads[1].length >= call.address + call.length
        /\ \A n \in 0..(reads[1].length - 1) :
               n % 16 = 0 => reads[1].address + n < call.address + call.length
        /\ block = DeviceBytes(devmem, call.core, call.address, call.length)

\* a read that crosses a block boundary, and one of length 0 at an unaligned
\* address
C18_Witness ==
    /\ call.op = "_read_block"
    /\ call.address = 30 /\ call.length = 5
    /\ reads[1].address = 16 /\ reads[1].length = 32
    /\ Len(block) = 5

C18_WitnessEmpty ==
    /\ call.op = "_read_block"
    /\ call.address = 16 /\ call.length = 0
    /\ Len(reads) = 1 /\ reads[1].length = 0
    /\ block = <<>>


(***************************************************************************)
(* Completion checks: an instance is transformed and evaluated.  _checks   *)
(* is a dict, which keeps insertion order: a sequence of entries with      *)
(* distinct cores.                                                         *)
(***************************************************************************)
\* largest number of assertions held for one core of a source instance
MaxChecks == 2

\* AddressData(address, data)
AddressData(address, data) == [address |-> address, data |-> data]

\* assertions: 4 bytes at 18 as core (1,1) holds them in the first device
\* image, 3 bytes at 30 as core (1,2) holds them
AssertionPool ==
    { AddressData(18, DeviceBytes(DevImage(1), <<1, 1>>, 18, 4)),
      AddressData(30, DeviceBytes(DevImage(1), <<1, 2>>, 30, 3)) }

\* a dict as a sequence of entries: the keys are distinct
Entry(core, list) == [core |-> core, checks |-> list]
HasCore(d, core) == \E i \in DOMAIN d : d[i].core = core
ChecksOf(d, core) == d[CHOOSE i \in DOMAIN d : d[i].core = core].checks
Distinct(keys) == \A i, j \in DOMAIN keys : keys[i] = keys[j] => i = j

\* d[core] = list: a present key keeps its position and takes the new value
DictSet(d, core, list) ==
    IF HasCore(d, core)
    THEN [i \in DOMAIN d |-> IF d[i].core = core THEN Entry(core, list) ELSE d[i]]
    ELSE Append(d, Entry(core, list))

\* instances as _load_from_ttx builds them: per logical core a non-empty list
SourceInstances ==
    LET Lists == SeqsUpTo(AssertionPool, MaxChecks) \ {<<>>}
        Keys == {k \in SeqsUpTo(LogicalCores, Cardinality(LogicalCores)) : Distinct(k)}
    IN UNION {{[i \in DOMAIN k |-> Entry(k[i], l[i])] : l \in [DOMAIN k -> Lists]} : k \in Keys}

\* core_mapping arguments: logical cores, in the mapping's order, each with a
\* collection of physical cores
OrderedMappings ==
    LET Targets == {SortCores(S) : S \in SUBSET TensixCores}
        Keys == {k \in SeqsUpTo(LogicalCores, Cardinality(LogicalCores)) : Distinct(k)}
    IN UNION {{[i \in DOMAIN k |-> [logical |-> k[i], physicals |-> t[i]]] :
                  t \in [DOMAIN k -> Targets]} : k \in Keys}

RECURSIVE RemapPairs(_, _, _)
\* the dict comprehension of remap_to_physical over the remaining
\* (logical, physical) pairs: new[physical] = self._checks[logical].copy()
RemapPairs(d, pairs, new) ==
    IF pairs = <<>> THEN new
    ELSE LET p == Head(pairs) IN
         IF HasCore(d, p.logical)
         THEN RemapPairs(d, Tail(pairs), DictSet(new, p.physical, ChecksOf(d, p.logical)))
         ELSE RemapPairs(d, Tail(pairs), new)

\* remap_to_physical: the _checks of the new instance
remap_to_physical(d, m) ==
    LET pairs == Concat([i \in DOMAIN m |->
                     [j \in DOMAIN m[i].physicals |->
                         [logical |-> m[i].logical, physical |-> m[i].physicals[j]]]])
    IN RemapPairs(d, pairs, <<>>)

\* a comparison of the lengths only
Matches_length(data, check) == Len(data) = Len(check.data)

\* test: not (data != check.data)
Matches(data, check) == data = check.data

\* the (core, check) pairs in the order test visits them
Assertions(d) ==
    Concat([i \in DOMAIN d |->
               [j \in DOMAIN d[i].checks |-> [core |-> d[i].core, check |-> d[i].checks[j]]]])

RECURSIVE TestLoop(_, _)
\* the loops of test over the remaining assertions: the reads issued and the
\* value returned
TestLoop(memory, todo) ==
    IF todo = <<>> THEN [reads |-> <<>>, result |-> TRUE]
    ELSE LET a == Head(todo)
             r == read_block(memory, a.core, a.check.address, Len(a.check.data))
         IN IF ~Matches(r.data, a.check) THEN [reads |-> <<r.read>>, result |-> FALSE]
            ELSE LET rest == TestLoop(memory, Tail(todo)) IN
                 [reads |-> <<r.read>> \o rest.reads, result |-> rest.result]

\* TtxCompletionChecks.test(chip)
test(memory, d) == TestLoop(memory, Assertions(d))

\* an instance loaded from an archive, and a device
ChecksInit ==
    /\ LoaderIdle
    /\ CodecIdle
    /\ LaterIdle
    /\ devmem \in DevImages
    /\ checks \in SourceInstances
    /\ source = <<>> /\ mapping = <<>>
    /\ call = NoCall /\ reads = <<>> /\ block = <<>> /\ outcome = "none"

\* checks.remap_to_physical(core_mapping), the result taking the place of
\* the instance
RemapToPhysical ==
    /\ call = NoCall
    /\ \E m \in OrderedMappings :
        /\ mapping' = m
        /\ source' = checks
        /\ checks' = remap_to_physical(checks, m)
    /\ call' = [op |-> "remap_to_physical"]
    /\ UNCHANGED <<loaderVars, codecVars, laterVars, devmem, reads, block, outcome>>

\* checks.test(chip), on an instance whose cores are cores of the device
Test ==
    /\ call.op # "test"
    /\ \A i \in DOMAIN checks : checks[i].core \in DOMAIN devmem
    /\ LET t == test(devmem, checks) IN
        /\ reads' = reads \o t.reads
        /\ outcome' = (IF t.result THEN "true" ELSE "false")
    /\ call' = [op |-> "test"]
    /\ UNCHANGED <<loaderVars, codecVars, laterVars, devmem, checks, source, mapping, block>>

ChecksNext == RemapToPhysical \/ Test

SpecChecks == ChecksInit /\ [][ChecksNext]_vars

\* C19: test returns true if and only if, for every core and every assertion
\* held for it, the device bytes at [address, address + len(expected)) of that
\* core equal expected; with no assertions it returns true without reading.
C19_TestIffAllAssertionsMatch ==
    call.op = "test" =>
        /\ (outcome = "true") <=>
               \A i \in DOMAIN checks : \A j \in DOMAIN checks[i].checks :
                   LET a == checks[i].checks[j] IN
                   DeviceBytes(devmem, checks[i].core, a.address, Len(a.data)) = a.data
        /\ outcome \in {"true", "false"}
        /\ checks = <<>> => (outcome = "true" /\ reads = <<>>)

\* the first core's assertion matched, the second core's did not: false
C19_Witness ==
    /\ call.op = "test"
    /\ Len(checks) = 2
    /\ Len(reads) = 2
    /\ reads[1].core # reads[2].core
    /\ outcome = "false"

\* every assertion held for two cores matched: true
C19_WitnessTrue ==
    /\ call.op = "test"
    /\ Len(checks) = 2
    /\ Len(reads) >= 2
    /\ outcome = "true"

\* no assertions: true without a read
C19_WitnessEmpty ==
    /\ call.op = "test"
    /\ checks = <<>>
    /\ reads = <<>>
    /\ outcome = "true"

\* the physical cores a mapping targets from a logical core
TargetsOf(m, logical) ==
    UNION {{m[i].physicals[j] : j \in DOMAIN m[i].physicals} :
              i \in {i \in DOMAIN m : m[i].logical = logical}}

\* the elements of a sequence
Range(s) == {s[i] : i \in DOMAIN s}

\* C20: after remap_to_physical, for every logical core L that has checks and
\* is a key of the mapping, and every physical core P of mapping[L], the list
\* of P contains every assertion of L (of both, when two logical cores map to
\* P); logical cores absent from the mapping contribute nothing, and no
\* physical core outside the mapping's targets appears.
C20_RemapCarriesEveryMappedAssertion ==
    call.op = "remap_to_physical" =>
        /\ \A i \in DOMAIN source : \A P \in TargetsOf(mapping, source[i].core) :
               /\ HasCore(checks, P)
               /\ Range(source[i].checks) \subseteq Range(ChecksOf(checks, P))
        /\ \A k \in DOMAIN checks :
               /\ \E i \in DOMAIN mapping : checks[k].core \in TargetsOf(mapping, mapping[i].logical)
               /\ \A a \in Range(checks[k].checks) :
                      \E i \in DOMAIN source :
                          /\ a \in Range(source[i].checks)
                          /\ checks[k].core \in TargetsOf(mapping, source[i].core)


\* C27: on a faithful device (every noc_read returns the bytes written last)
\* a per-core load with verification never raises a load-verification
\* failure, image files with overlapping chunks of different data included.
C27_FaithfulDeviceNeverFailsVerification ==
    (pc = "raised" /\ error.msg = "Failed to write to core"
     /\ ~no_check /\ ~IsBroadcast(core_mapping))
    => glitched


(***************************************************************************)
(* Completion checks: chains of transformations.  A list has an identity:  *)
(* heap[r] is the content of list r, and an instance's _checks maps each   *)
(* core to a list reference.                                               *)
(***************************************************************************)
\* largest number of instances of one chain, the source included
MaxInstances == 3
\* largest number of later changes to a list
MaxChanges == 1

\* list.copy() without a copy: the same list
CopyList_alias(h, ref) == [heap |-> h, ref |-> ref]

\* list.copy(): a new list with the same elements
CopyList(h, ref) == [heap |-> Append(h, h[ref]), ref |-> Len(h) + 1]

RefEntry(core, ref) == [core |-> core, ref |-> ref]
HasRef(d, core) == \E i \in DOMAIN d : d[i].core = core

\* d[core] = ref: a present key keeps its position
RefSet(d, core, ref) ==
    IF HasRef(d, core)
    THEN [i \in DOMAIN d |-> IF d[i].core = core THEN RefEntry(core, ref) ELSE d[i]]
    ELSE Append(d, RefEntry(core, ref))

RECURSIVE CopyInto(_, _, _)
\* a dict comprehension {core: list.copy() ...} over the remaining
\* (core, list) items: the heap afterwards and the new _checks
CopyInto(h, items, new) ==
    IF items = <<>> THEN [heap |-> h, inst |-> new]
    ELSE LET c == CopyList(h, Head(items).ref) IN
         CopyInto(c.heap, Tail(items), RefSet(new, Head(items).core, c.ref))

\* remap_for_broadcast: all_checks is a new list; every core gets a copy
alias_remap_for_broadcast(h, d, cores) ==
    LET all_checks == Concat([i \in DOMAIN d |-> h[d[i].ref]])
        h1 == Append(h, all_checks)
    IN CopyInto(h1, [i \in DOMAIN cores |-> RefEntry(cores[i], Len(h1))], <<>>)

\* remap_to_physical: self._checks[logical].copy() per (logical, physical)
alias_remap_to_physical(h, d, m) ==
    LET pairs == Concat([i \in DOMAIN m |->
                     [j \in DOMAIN m[i].physicals |->
                         [logical |-> m[i].logical, physical |-> m[i].physicals[j]]]])
        known == SelectSeq(pairs, LAMBDA p : HasRef(d, p.logical))
        RefOf(core) == d[CHOOSE i \in DOMAIN d : d[i].core = core].ref
    IN CopyInto(h, [i \in DOMAIN known |->
                       RefEntry(known[i].physical, RefOf(known[i].logical))], <<>>)

\* filter_physical: checks.copy() for the cores in loaded_cores
alias_filter_physical(h, d, loaded_cores) ==
    CopyInto(h, SelectSeq(d, LAMBDA e : e.core \in loaded_cores), <<>>)

\* what an instance holds: per core the content of its list
View(h, d) == [i \in DOMAIN d |-> [core |-> d[i].core, checks |-> h[d[i].ref]]]
Views(h, insts) == [i \in DOMAIN insts |-> View(h, insts[i])]

\* the contents of the lists of a source instance
SourceLists ==
    LET a18 == AddressData(18, DeviceBytes(DevImage(1), <<1, 1>>, 18, 4))
        a30 == AddressData(30, DeviceBytes(DevImage(1), <<1, 2>>, 30, 3))
    IN (<<0, 0>> :> <<a18>>) @@ (<<5, 5>> :> <<a30, a18>>)

\* the cores of source instances, in insertion order
SourceKeys == {k \in SeqsUpTo(LogicalCores, Cardinality(LogicalCores)) : Distinct(k)}

\* arguments of the transformations
BroadcastTargets == {<<<<1, 1>>>>, <<<<1, 1>>, <<1, 2>>>>}
AliasMappings ==
    { <<[logical |-> <<0, 0>>, physicals |-> <<<<1, 1>>>>]>>,
      <<[logical |-> <<0, 0>>, physicals |-> <<<<1, 1>>, <<1, 2>>>>]>>,
      <<[logical |-> <<0, 0>>, physicals |-> <<<<1, 1>>>>],
        [logical |-> <<5, 5>>, physicals |-> <<<<1, 1>>>>]>>,
      <<[logical |-> <<5, 5>>, physicals |-> <<<<1, 2>>>>]>> }
LoadedSets == {{<<1, 1>>}, {<<0, 0>>}, {<<0, 0>>, <<5, 5>>, <<1, 1>>, <<1, 2>>}}

\* a source instance: every core has a list of its own
AliasInit ==
    /\ LoaderIdle
    /\ CodecIdle
    /\ ChecksIdle
    /\ ChipIdle
    /\ MainIdle
    /\ \E k \in SourceKeys :
        /\ heap = [i \in DOMAIN k |-> SourceLists[k[i]]]
        /\ instances = <<[i \in DOMAIN k |-> RefEntry(k[i], i)]>>
    /\ touched = 0
    /\ prev = <<>>

\* a transformation adds its result to the instances
Transformed(r) ==
    /\ Len(instances) < MaxInstances
    /\ heap' = r.heap
    /\ instances' = Append(instances, r.inst)
    /\ touched' = 0
    /\ prev' = Views(heap, instances)
    /\ UNCHANGED <<loaderVars, codecVars, checkVars, chipVars, mainVars>>

RemapForBroadcast ==
    \E i \in DOMAIN instances, cores \in BroadcastTargets :
        Transformed(alias_remap_for_broadcast(heap, instances[i], cores))

AliasRemapToPhysical ==
    \E i \in DOMAIN instances, m \in AliasMappings :
        Transformed(alias_remap_to_physical(heap, instances[i], m))

FilterPhysical ==
    \E i \in DOMAIN instances, loaded_cores \in LoadedSets :
        Transformed(alias_filter_physical(heap, instances[i], loaded_cores))

\* a later change to a list of an instance: an assertion is appended to it
ChangeList ==
    /\ Len(SelectSeq(heap, LAMBDA l : l # <<>> /\ l[Len(l)].address = 0)) < MaxChanges
    /\ \E i \in DOMAIN instances : \E k \in DOMAIN instances[i] :
        /\ heap' = [heap EXCEPT ![instances[i][k].ref] = Append(@, AddressData(0, <<>>))]
        /\ touched' = i
    /\ prev' = Views(heap, instances)
    /\ UNCHANGED <<loaderVars, codecVars, checkVars, chipVars, mainVars, instances>>

AliasNext == RemapForBroadcast \/ AliasRemapToPhysical \/ FilterPhysical \/ ChangeList

SpecAlias == AliasInit /\ [][AliasNext]_vars

\* the list references of an instance
RefsOf(d) == {d[k].ref : k \in DOMAIN d}

\* C21: every transformation returns a new instance and leaves the instance
\* it was made from (and every other) unchanged; no list is shared between two
\* instances, so a change to a list of one instance is not visible through
\* another.
C21_TransformationsShareNoList ==
    /\ \A i, j \in DOMAIN instances : i # j => RefsOf(instances[i]) \cap RefsOf(instances[j]) = {}
    /\ \A j \in DOMAIN prev : j # touched => View(heap, instances[j]) = prev[j]
    /\ (prev # <<>> /\ touched = 0) => Len(instances) = Len(prev) + 1

\* a list of a result was changed after a remap and a filter; the source
\* still holds what it held
C21_Witness ==
    /\ Len(instances) = 3
    /\ instances[1] # <<>> /\ instances[2] # <<>> /\ instances[3] # <<>>
    /\ touched = 3
    /\ View(heap, instances[3]) # prev[3]
    /\ View(heap, instances[1]) = prev[1]


(***************************************************************************)
(* Chip topology: get_tensix_locations of the three architectures, with    *)
(* the caches a TTChip keeps between calls.                                *)
(***************************************************************************)
\* bit b of x, and x.bit_length()
Bit(x, b) == (x \div (2 ^ b)) % 2
RECURSIVE bit_length(_)
bit_length(x) == IF x = 0 THEN 0 ELSE 1 + bit_length(x \div 2)

\* TTChip._int_to_bits: the bits set in x, in increasing order
int_to_bits(x) ==
    SelectSeq([i \in 1..bit_length(x) |-> i - 1], LAMBDA b : Bit(x, b) = 1)

\* GRID_SIZE_Y of WhChip and GsChip
GRID_SIZE_Y == 12
\* GsChip.GRID_SIZE_X
GS_GRID_SIZE_X == 13
\* PHYS_Y_TO_NOC_0_Y of WhChip and GsChip; Python index y is index y + 1 here
PHYS_Y_TO_NOC_0_Y == <<0, 11, 1, 10, 2, 9, 3, 8, 4, 7, 5, 6>>

\* all_tensix_rows and all_tensix_cols of WhChip.get_tensix_locations
all_tensix_rows == <<1, 2, 3, 4, 5, 7, 8, 9, 10, 11>>
all_tensix_cols == <<1, 2, 3, 4, 6, 7, 8, 9>>

\* the harvesting mask taken as it is
ShiftLeft_none(bad_row_bits) == bad_row_bits

\* bad_row_bits << 1
ShiftLeft(bad_row_bits) == bad_row_bits * 2

\* WhChip.get_tensix_locations from the harvesting bits
WhLocations(bad_row_bits) ==
    LET bad_physical_rows == int_to_bits(ShiftLeft(bad_row_bits))
        disabled_rows == {PHYS_Y_TO_NOC_0_Y[bad_physical_rows[i] + 1] :
                             i \in DOMAIN bad_physical_rows}
        good_rows == SelectSeq(all_tensix_rows, LAMBDA y : y \notin disabled_rows)
    IN {<<all_tensix_cols[i], good_rows[j]>> : i \in DOMAIN all_tensix_cols, j \in DOMAIN good_rows}

\* the row looked up without reversing the row order
GsRowIndex_plain(y) == y

\* GsChip: self.GRID_SIZE_Y - y - 1
GsRowIndex(y) == GRID_SIZE_Y - y - 1

\* GsChip.get_tensix_locations from the harvesting bits
GsLocations(bad_row_bits) ==
    LET bad_physical_rows == int_to_bits(ShiftLeft(bad_row_bits))
        disabled_rows == {PHYS_Y_TO_NOC_0_Y[GsRowIndex(bad_physical_rows[i]) + 1] :
                             i \in DOMAIN bad_physical_rows}
        good_rows == SelectSeq(all_tensix_rows, LAMBDA y : y \notin disabled_rows)
    IN {<<x, good_rows[j]>> : x \in 1..(GS_GRID_SIZE_X - 1), j \in DOMAIN good_rows}

\* BhChip: NUM_TENSIX_X, TENSIX_COLS and TENSIX_LOCATIONS
BH_NUM_TENSIX_X == 14
TENSIX_COLS == <<1, 2, 3, 4, 5, 6, 7, 10, 11, 12, 13, 14, 15, 16>>
TENSIX_LOCATIONS == {<<x, y>> : x \in (1..7) \cup (10..16), y \in 2..11}

RECURSIVE CountBits(_)
\* the while loop of BhChip.get_tensix_locations: the number of set bits
CountBits(mask) == IF mask = 0 THEN 0 ELSE (mask % 2) + CountBits(mask \div 2)

\* BhChip.get_tensix_locations from the telemetry
BhLocations(translation, mask) ==
    IF translation
    THEN LET NUM_TENSIX_X == CountBits(mask) IN
         {core \in TENSIX_LOCATIONS :
             \/ core[1] <= 7 /\ core[1] < NUM_TENSIX_X
             \/ core[1] >= 10 /\ (core[1] - 2) < NUM_TENSIX_X}
    ELSE LET enabled_tensix_columns ==
                 {TENSIX_COLS[col + 1] : col \in {c \in 0..(BH_NUM_TENSIX_X - 1) : Bit(mask, c) = 1}}
         IN {core \in TENSIX_LOCATIONS : core[1] \in enabled_tensix_columns}

\* what a device can report: arc_msg(0x57) harvesting bits in positions 0..10
\* (row-harvesting chips), and the blackhole telemetry: the enabled-column
\* mask (all columns up to some column, or all but one) and the translation
\* flag
HarvestMasks == 0..(2 ^ (GRID_SIZE_Y - 1) - 1)
ColumnMasks == {2 ^ k - 1 : k \in 0..BH_NUM_TENSIX_X}
               \cup {2 ^ BH_NUM_TENSIX_X - 1 - 2 ^ c : c \in 0..(BH_NUM_TENSIX_X - 1)}
Reported(harvest, cols, translation) ==
    [harvest |-> harvest, cols |-> cols, translation |-> translation]
DeviceStates(a) ==
    IF a = "Blackhole" THEN {Reported(0, m, t) : m \in ColumnMasks, t \in BOOLEAN}
    ELSE {Reported(h, 0, FALSE) : h \in HarvestMasks}
\* what a device can report after it was reinitialized
ReinitStates(a) ==
    IF a = "Blackhole"
    THEN {Reported(0, m, t) : m \in {2 ^ BH_NUM_TENSIX_X - 1, 2 ^ (BH_NUM_TENSIX_X - 1) - 1},
                              t \in BOOLEAN}
    ELSE {Reported(h, 0, FALSE) : h \in {0, 1, 2 ^ (GRID_SIZE_Y - 2)}}

\* largest number of reinit() calls
MaxReinits == 1

\* a chip was detected: nothing cached (TTChip.__init__)
ChipInit ==
    /\ LoaderIdle
    /\ CodecIdle
    /\ ChecksIdle
    /\ AliasIdle
    /\ MainIdle
    /\ arch \in {"Wormhole", "Grayskull", "Blackhole"}
    /\ device \in DeviceStates(arch)
    /\ harvesting_bits = NoBits
    /\ telmetry_cache = NoTelemetry
    /\ locations = {}
    /\ chip_op = "none"
    /\ reinits = 0

ChipFrame == UNCHANGED <<loaderVars, codecVars, checkVars, aliasVars, mainVars>>

\* get_tensix_locations of a row-harvesting chip: get_harvest_bits asks the
\* device only when nothing is cached
GetTensixLocationsRows ==
    /\ arch \in {"Wormhole", "Grayskull"}
    /\ LET bits == IF harvesting_bits = NoBits THEN device.harvest ELSE harvesting_bits IN
        /\ harvesting_bits' = bits
        /\ locations' = (IF arch = "Wormhole" THEN WhLocations(bits) ELSE GsLocations(bits))
    /\ chip_op' = "get_tensix_locations"
    /\ UNCHANGED <<arch, device, telmetry_cache, reinits>>
    /\ ChipFrame

\* get_tensix_locations of a blackhole chip: get_telemetry_unchanged asks the
\* device only when no telemetry is cached
GetTensixLocationsBh ==
    /\ arch = "Blackhole"
    /\ LET telemetry == IF telmetry_cache = NoTelemetry
                        THEN [noc_translation_enabled |-> device.translation,
                              tensix_enabled_col |-> device.cols]
                        ELSE telmetry_cache
       IN /\ telmetry_cache' = telemetry
          /\ locations' = BhLocations(telemetry.noc_translation_enabled,
                                      telemetry.tensix_enabled_col)
    /\ chip_op' = "get_tensix_locations"
    /\ UNCHANGED <<arch, device, harvesting_bits, reinits>>
    /\ ChipFrame

\* reinit(): the device is opened again and may report something else; the
\* telemetry cache is dropped
Reinit ==
    /\ reinits < MaxReinits
    /\ device' \in ReinitStates(arch)
    /\ telmetry_cache' = NoTelemetry
    /\ reinits' = reinits + 1
    /\ chip_op' = "reinit"
    /\ UNCHANGED <<arch, harvesting_bits, locations>>
    /\ ChipFrame

ChipNext == GetTensixLocationsRows \/ GetTensixLocationsBh \/ Reinit

SpecChip == ChipInit /\ [][ChipNext]_vars


\* the elements of the row and column lists
TensixRows == {all_tensix_rows[i] : i \in DOMAIN all_tensix_rows}
TensixCols(a) == IF a = "Wormhole" THEN {all_tensix_cols[i] : i \in DOMAIN all_tensix_cols}
                 ELSE 1..(GS_GRID_SIZE_X - 1)

\* C22 as stated: with harvesting bitmask 0b01 a wormhole chip returns the
\* full cross product of the tensix columns and the ten tensix rows.
C22_Mask1HasNoEffect ==
    (arch = "Wormhole" /\ chip_op = "get_tensix_locations" /\ harvesting_bits = 1) =>
        locations = TensixCols("Wormhole") \X TensixRows

\* C22: with harvesting bitmask 0b01 the shifted mask has bit 1 set, physical
\* row 1 is NOC row 11, and a wormhole chip returns the tensix columns
\* crossed with the tensix rows without row 11.
C22_Mask1DisablesRow11 ==
    (arch = "Wormhole" /\ chip_op = "get_tensix_locations" /\ harvesting_bits = 1) =>
        locations = TensixCols("Wormhole") \X (TensixRows \ {11})

\* a wormhole chip with mask 0b01 returned its locations
C22_Witness ==
    /\ arch = "Wormhole" /\ chip_op = "get_tensix_locations" /\ harvesting_bits = 1
    /\ reinits = 0
    /\ Cardinality(locations) = 72

\* the NOC-0 rows disabled by mask h: each set bit position p of h << 1
\* through the table, in reversed row order on grayskull
DisabledRows(a, h) ==
    {PHYS_Y_TO_NOC_0_Y[(IF a = "Wormhole" THEN p ELSE GRID_SIZE_Y - p - 1) + 1] :
        p \in {q \in 1..(GRID_SIZE_Y - 1) : Bit(h, q - 1) = 1}}

\* C24: for the row-harvesting variants and every mask h with bits in
\* positions 0..10, get_tensix_locations returns exactly the tensix columns
\* crossed with the tensix rows minus the disabled NOC-0 rows of h.
C24_RowHarvestingLocations ==
    (arch \in {"Wormhole", "Grayskull"} /\ chip_op = "get_tensix_locations") =>
        locations = TensixCols(arch) \X (TensixRows \ DisabledRows(arch, harvesting_bits))

\* a grayskull chip with the two lowest mask bits set lost NOC rows 5 and 7
C24_Witness ==
    /\ arch = "Grayskull" /\ chip_op = "get_tensix_locations"
    /\ harvesting_bits = 3
    /\ locations = (1..12) \X {1, 2, 3, 4, 8, 9, 10, 11}

\* get_tensix_locations computed from what the device reports now
LocationsOfDevice ==
    IF arch = "Wormhole" THEN WhLocations(device.harvest)
    ELSE IF arch = "Grayskull" THEN GsLocations(device.harvest)
    ELSE BhLocations(device.translation, device.cols)

\* C23: after reinit(), get_tensix_locations is computed from what the device
\* reports after the reinit, for every architecture: nothing cached before
\* is reused.
C23_LocationsFreshAfterReinit ==
    (chip_op = "get_tensix_locations" /\ reinits > 0) => locations = LocationsOfDevice

\* the columns a set of cores spans
ColumnsOf(cores) == {c[1] : c \in cores}

\* C29: blackhole with NOC translation enabled: for every enabled-column mask
\* m the returned set spans exactly popcount(m) columns, each with all ten
\* tensix rows, as many cores as the translation-disabled decode of m; with
\* all 14 columns enabled it is the full tensix coordinate set.
C29_TranslatedSpansPopcountColumns ==
    (arch = "Blackhole" /\ chip_op = "get_tensix_locations"
     /\ telmetry_cache.noc_translation_enabled) =>
        LET m == telmetry_cache.tensix_enabled_col
            popcount == Cardinality({c \in 0..(BH_NUM_TENSIX_X - 1) : Bit(m, c) = 1})
        IN /\ Cardinality(ColumnsOf(locations)) = popcount
           /\ locations = ColumnsOf(locations) \X (2..11)
           /\ Cardinality(locations) = Cardinality(BhLocations(FALSE, m))
           /\ m = 2 ^ BH_NUM_TENSIX_X - 1 => locations = TENSIX_LOCATIONS


(***************************************************************************)
(* tt-burnin on one device: main starts the workload through               *)
(* start_burnin_wh or start_burnin_bh, which load the packaged archive     *)
(* with load_ttx_file between two soft-reset broadcasts.  The start        *)
(* routines are also called directly, with parameters of the caller.       *)
(***************************************************************************)
\* the soft-reset register values, as the sets of their flags
RESET_ASSERTED == {"BRISC", "TRISC", "NCRISC"}
ReleaseValue(p) ==
    {"NCRISC"} \cup (IF p.keep_trisc_under_reset THEN {"TRISC"} ELSE {})
               \cup (IF p.stagger_start THEN {"STAGGERED_START_ENABLE"} ELSE {})

\* device.noc_broadcast32(0, 0xFFB121B0, value) and device.arc_msg(msg)
Broadcast32(value) == [op |-> "noc_broadcast32", value |-> value]
ArcMsg(msg) == [op |-> "arc_msg", msg |-> msg]

\* the parameters of start_burnin_wh / start_burnin_bh, and their defaults
StartParams == [keep_trisc_under_reset : BOOLEAN, stagger_start : BOOLEAN,
                no_check : BOOLEAN, idle : BOOLEAN]
DefaultParams == [keep_trisc_under_reset |-> FALSE, stagger_start |-> FALSE,
                  no_check |-> FALSE, idle |-> FALSE]

\* contents the packaged workload archive may have: an image; an image and
\* ckernels; an image cut inside its second chunk header; no entry at all
WorkloadArchives ==
    { (<<<<0, 0>>, "image.bin">> :> BinOneChunk),
      (<<<<0, 0>>, "image.bin">> :> BinTwoChunks) @@ (<<<<0, 0>>, "ckernels.hex">> :> HexOneBlock),
      (<<<<0, 0>>, "image.bin">> :> BinTruncChunkHeader),
      <<>> }

\* {CoreId(0, 0): device.get_tensix_locations()}
WorkloadMapping == (<<0, 0>> :> TensixCores)

\* parse_args() and detect_and_group_devices() have run
MainInit ==
    /\ LoaderIdle
    /\ CodecIdle
    /\ ChecksIdle
    /\ AliasIdle
    /\ arch \in {"Wormhole", "Blackhole"}
    /\ device = NoDevice /\ harvesting_bits = NoBits /\ telmetry_cache = NoTelemetry
    /\ locations = {} /\ chip_op = "none" /\ reinits = 0
    /\ args \in [no_check : BOOLEAN, idle : BOOLEAN]
    /\ via = "none"
    /\ params = NoArgs
    /\ mpc = "detected"

MainFrame == UNCHANGED <<codecVars, checkVars, aliasVars, chipVars>>

\* main.start_burnin: start_burnin_wh(device) / start_burnin_bh(device)
MainStartBurnin ==
    /\ mpc = "detected"
    /\ via' = "main"
    /\ params' = DefaultParams
    /\ mpc' = "called"
    /\ UNCHANGED <<loaderVars, args>>
    /\ MainFrame

\* start_burnin_wh / start_burnin_bh called with parameters of the caller
DirectStartBurnin ==
    /\ mpc = "detected"
    /\ via' = "direct"
    /\ params' \in StartParams
    /\ mpc' = "called"
    /\ UNCHANGED <<loaderVars, args>>
    /\ MainFrame

\* "Put tensix under soft reset", then the power messages: 0xBA and 0x52 on
\* wormhole, 0x52 on blackhole with a driver older than 2.6.0
AssertSoftReset ==
    /\ mpc = "called"
    /\ \E old_driver \in BOOLEAN :
        log' = log \o <<Broadcast32(RESET_ASSERTED)>>
                   \o (IF arch = "Wormhole" THEN <<ArcMsg("0xBA"), ArcMsg("0x52")>>
                       ELSE IF old_driver THEN <<ArcMsg("0x52")>> ELSE <<>>)
    /\ mpc' = "in_reset"
    /\ UNCHANGED <<ttx, core_mapping, no_check, pc, pending, mem, error, result, glitched>>
    /\ UNCHANGED <<args, via, params>>
    /\ MainFrame


\* "if not idle: load_ttx_file(device, TtxFile(...), {CoreId(0, 0): ...}, no_check)"
LoadWorkload ==
    /\ mpc = "in_reset"
    /\ IF params.idle
       THEN /\ mpc' = "load_skipped"
            /\ UNCHANGED loaderVars
       ELSE /\ mpc' = "load_called"
            /\ \E a \in WorkloadArchives :
                LET failure == Validate(a, WorkloadMapping) IN
                /\ ttx' = a
                /\ core_mapping' = WorkloadMapping
                /\ no_check' = params.no_check
                /\ error' = failure
                /\ IF failure.msg # NoError
                   THEN pc' = "raised" /\ pending' = <<>>
                   ELSE pc' = "loading"
                        /\ pending' = LoadRequests(a, WorkloadMapping, params.no_check)
            /\ UNCHANGED <<log, mem, result, glitched>>
    /\ UNCHANGED <<args, via, params>>
    /\ MainFrame

\* the start routine goes on whatever load_ttx_file did
MayRelease_afterRaise == mpc = "load_skipped" \/ (mpc = "load_called" /\ pc \in {"returned", "raised"})

\* the statements after the load are reached when it was skipped or returned
MayRelease == mpc = "load_skipped" \/ (mpc = "load_called" /\ pc = "returned")

\* "Take cores out of reset"
ReleaseFromReset ==
    /\ MayRelease
    /\ log' = Append(log, Broadcast32(ReleaseValue(params)))
    /\ mpc' = "released"
    /\ UNCHANGED <<ttx, core_mapping, no_check, pc, pending, mem, error, result, glitched>>
    /\ UNCHANGED <<args, via, params>>
    /\ MainFrame

\* an exception of load_ttx_file leaves the start routine
StartRaises ==
    /\ mpc = "load_called" /\ pc = "raised"
    /\ mpc' = "failed"
    /\ UNCHANGED <<loaderVars, args, via, params>>
    /\ MainFrame

\* a broadcast load issues no noc_write, so NocWrite has no part here
MainNext ==
    \/ MainStartBurnin \/ DirectStartBurnin \/ AssertSoftReset \/ LoadWorkload
    \/ NocBroadcast \/ NocRead \/ Raise \/ Return
    \/ ReleaseFromReset \/ StartRaises

SpecMain == MainInit /\ [][MainNext]_vars

\* the positions of the log entries of a kind
ImageOps == {i \in DOMAIN log : log[i].op \in {"noc_write", "noc_broadcast", "noc_read"}}
ImageWrites == {i \in DOMAIN log : log[i].op \in {"noc_write", "noc_broadcast"}}
ResetOps(value) == {i \in DOMAIN log : log[i].op = "noc_broadcast32" /\ log[i].value = value}
Releases == {i \in DOMAIN log : log[i].op = "noc_broadcast32" /\ "BRISC" \notin log[i].value}

\* C25: run with --no-check, tt-burnin performs no read-back verification:
\* the command-line value reaches load_ttx_file and no noc_read is issued.
C25_NoCheckOptionSuppressesReads ==
    (via = "main" /\ args.no_check) =>
        /\ \A i \in DOMAIN log : log[i].op # "noc_read"
        /\ mpc = "load_called" => no_check

\* C26: run with --idle, tt-burnin loads no workload: no image write is issued
\* between the soft-reset assert and the release from reset.
C26_IdleOptionSkipsLoad ==
    (via = "main" /\ args.idle) =>
        /\ ImageWrites = {}
        /\ mpc # "load_called"

\* C28: the soft-reset assert is the first device operation, every image
\* write and verification read comes after it, the release from reset is the
\* last operation and is issued only after load_ttx_file returned (or was
\* skipped); if the load raises, the start routine never releases the cores.
C28_ResetLoadReleaseOrder ==
    /\ log # <<>> => (log[1].op = "noc_broadcast32" /\ log[1].value = RESET_ASSERTED)
    /\ \A i \in ImageOps : \E j \in ResetOps(RESET_ASSERTED) : j < i
    /\ \A i \in Releases :
           /\ i = Len(log)
           /\ params.idle \/ pc = "returned"
           /\ \A j \in ImageOps : j < i
    /\ (pc = "raised" \/ mpc = "failed") => Releases = {}
    /\ mpc = "released" => Releases # {}

\* the load wrote a chunk and then raised: the cores stay in reset
C28_Witness ==
    /\ mpc = "failed"
    /\ ImageWrites # {}
    /\ Releases = {}

\* a verified load returned and the cores were released
C28_WitnessReleased ==
    /\ mpc = "released"
    /\ \E i \in ImageOps : log[i].op = "noc_read"
    /\ Releases = {Len(log)}

====
